---- MODULE Spec2Model ----
(***************************************************************************)
(* EchoHook viewer (echo-ui): the session page's request store, its        *)
(* historical fetch and its SSE subscription with reconnection, and the    *)
(* SSE relay route /api/proxy/stream/[sessionId], the session history the  *)
(* home page keeps in localStorage, and the /api/config endpoint.          *)
(***************************************************************************)
EXTENDS Integers, Sequences, FiniteSets, TLC

(***************************************************************************)
(* Bounds of the model.                                                    *)
(***************************************************************************)
\* request_ids seen by the page model (Spec)
MaxId == 2
\* longest historical batch the page model draws
MaxBatch == 2
\* the store model (SpecStore): request_ids of the live events; request_ids and
\* length of the historical batch
MaxStoreId == 4
MaxStoreBatchId == 2
MaxStoreBatch == 2
\* request_ids, batch length and number of live calls of the merge model (SpecMerge)
MaxMergeId == 3
MaxMergeBatch == 2
MaxLive == 2
\* the relay model (SpecRelay): bytes per upstream chunk, chunks read
MaxChunkLen == 1
MaxChunks == 3
\* the session history (SpecHistory): sessions created, hours on the clock,
\* sessions deleted
MaxCreated == 11
MaxClock == 3
MaxDeleted == 1

\* two captures of the same request_id that differ do so in their timestamp
Timestamps == {"t1", "t2"}

(***************************************************************************)
(* Program constants (SessionPage SSE effect).                             *)
(***************************************************************************)
maxReconnectAttempts == 10
baseReconnectDelay == 1000
maxReconnectDelay == 30000

NULL == "null"
NoTimer == 0

SessionNotFound == "Session not found or expired"
FailedToLoad == "Failed to load requests"
ConnectionExhausted == "Failed to maintain SSE connection. Please refresh the page."

\* event.data of a `request` message: text JSON.parse rejects, or an encoded record
Malformed == [json |-> FALSE]
Encoded(r) == [json |-> TRUE, value |-> r]

(***************************************************************************)
(* WebhookRequest: the fields the store logic reads (request_id) and one   *)
(* payload field (timestamp) standing for the rest of the record.          *)
(***************************************************************************)
WebhookRequest(n) == [request_id : 1..n, timestamp : Timestamps]

RECURSIVE SeqsUpTo(_, _)
SeqsUpTo(S, n) ==
  IF n = 0 THEN {<<>>}
  ELSE LET shorter == SeqsUpTo(S, n - 1)
       IN  shorter \cup {Append(s, x) : s \in shorter, x \in S}

RequestIds(reqs) == {reqs[i].request_id : i \in 1..Len(reqs)}
Records(reqs) == {reqs[i] : i \in 1..Len(reqs)}
NoDuplicateIds(reqs) ==
  \A i, j \in 1..Len(reqs) : reqs[i].request_id = reqs[j].request_id => i = j

\* the `requests` array of a historical response: the server keys a session's
\* requests by request_id, so a batch never repeats one
Batches(n, len) == {b \in SeqsUpTo(WebhookRequest(n), len) : NoDuplicateIds(b)}

(***************************************************************************)
(* RequestStore writers.                                                   *)
(***************************************************************************)
\* prev.some((r) => r.request_id === newRequest.request_id)
exists(prev, newRequest) ==
  \E i \in 1..Len(prev) : prev[i].request_id = newRequest.request_id

appendLiveNoDedup(prev, newRequest) == <<newRequest>> \o prev

appendLiveReplace(prev, newRequest) ==
  IF exists(prev, newRequest)
  THEN [i \in 1..Len(prev) |->
          IF prev[i].request_id = newRequest.request_id THEN newRequest ELSE prev[i]]
  ELSE <<newRequest>> \o prev

appendLiveAtEnd(prev, newRequest) ==
  IF exists(prev, newRequest) THEN prev ELSE Append(prev, newRequest)

\* the setRequests updater of the `request` listener
appendLive(prev, newRequest) ==
  IF exists(prev, newRequest) THEN prev ELSE <<newRequest>> \o prev

\* setRequests(data.requests || []): the batch replaces the array
loadHistorical(prev, data) ==
  IF "requests" \in DOMAIN data THEN data.requests ELSE <<>>

(***************************************************************************)
(* ReconnectionPolicy, as inlined in eventSource.onerror.                  *)
(***************************************************************************)
Min(a, b) == IF a < b THEN a ELSE b

nextDelayUncapped(attempt) == baseReconnectDelay * 2^attempt

\* Math.min(baseReconnectDelay * Math.pow(2, reconnectAttempts), 30000)
nextDelay(attempt) == Min(baseReconnectDelay * 2^attempt, maxReconnectDelay)

shouldRetryInclusive(attempt) == attempt <= maxReconnectAttempts

\* reconnectAttempts < maxReconnectAttempts
shouldRetry(attempt) == attempt < maxReconnectAttempts

(***************************************************************************)
(* State.                                                                  *)
(***************************************************************************)
VARIABLES
  sessionId,          \* params.uuid
  apiUrl,             \* useState('')
  configState,        \* fetchApiConfig: "pending", "done", "failed"
  fetchState,         \* fetchRequests: "idle", "pending", "done", "notfound", "failed"
  requests,           \* useState<WebhookRequest[]>([])
  isConnected,        \* useState(false)
  error,              \* useState<string | null>(null)
  eventSource,        \* readyState of the current EventSource, or NULL
  reconnectTimeout,   \* delay of the pending timer, or NoTimer
  reconnectAttempts,  \* let reconnectAttempts = 0
  scheduled,          \* history: delays of the timers set since the last onopen
  opened,             \* history: onopen has run at least once
  lastWrite,          \* history: the last store writer and what it met
  inBatch,            \* SpecMerge: the historical batch to apply
  inLive,             \* SpecMerge: the live events to apply
  liveDone,           \* SpecMerge: indices of inLive applied so far
  mounted,            \* the SessionPage is mounted (its effects are not cleaned up)
  cleanupMet,         \* history: what the SSE effect's cleanup found to release
  pinged,             \* history: the `ping` listener has run
  errorTick,          \* history: parity of the `error` events dispatched
  relayPc,            \* relay GET: "start", "fetching", "responded", "streaming", "ended"
  relayApiUrl,        \* relay GET: const apiUrl, "unread" before getApiUrlFromRedis
  upstreamFetches,    \* relay GET: calls of fetch made
  upstreamStatus,     \* backendResponse.status, 0 before the response
  responseStatus,     \* status of the Response the relay returned, 0 before
  upstream,           \* backendResponse.body: "none", "unread", "open", "ended",
                      \*   "errored", "cancelled"
  downstream,         \* the relay's ReadableStream: "none", "readable", "closed",
                      \*   "cancelled"
  upIn,               \* history: the chunks reader.read() returned
  downOut,            \* history: the chunks controller.enqueue accepted
  decoderPending,     \* bytes the streaming TextDecoder holds back
  thrown,             \* history: the controller calls that threw
  webhook_sessions,   \* localStorage item 'webhook_sessions'
  recentSessions,     \* Home: recentSessions state
  now,                \* the clock, in hours
  created,            \* sessions the backend has created
  homeOp,             \* history: the last writer of the history
  route,              \* the page shown: "mounting" (Home before its load effect),
                      \*   "home", "session"
  viewed,             \* session_id of the session page shown, 0 for none
  deleted,            \* calls of deleteSession made
  redisKey,           \* Redis key config:api_url as client.get yields it
  env,                \* process.env of the UI server
  configAnswer        \* apiUrl of the last /api/config answer, "unread" before

connVars == <<eventSource, reconnectTimeout, reconnectAttempts, scheduled, opened>>
mergeVars == <<inBatch, inLive, liveDone>>
relayVars == <<relayPc, relayApiUrl, upstreamFetches, upstreamStatus, responseStatus,
               upstream, downstream, upIn, downOut, decoderPending, thrown>>
homeVars == <<webhook_sessions, recentSessions, now, created, homeOp, route, viewed, deleted>>
configVars == <<redisKey, env, configAnswer>>
frameVars == <<mounted, cleanupMet, relayVars, homeVars, configVars>>
pageVars == <<sessionId, apiUrl, configState, fetchState, requests, isConnected, error,
              eventSource, reconnectTimeout, reconnectAttempts, scheduled, opened,
              lastWrite, inBatch, inLive, liveDone, mounted, cleanupMet, pinged,
              errorTick>>
vars == <<pageVars, relayVars, homeVars, configVars>>

\* localStorage.getItem: the item is absent until it is first set
Absent == [present |-> FALSE]
Stored(sessions) == [present |-> TRUE, value |-> sessions]

\* names of the environment fallbacks, in the order they are tried
EnvNames == <<"NEXT_PUBLIC_API_URL", "API_URL", "BACKEND_URL">>

\* a browser that has never seen the site, a server with nothing configured
HomeIdle ==
  /\ webhook_sessions = Absent
  /\ recentSessions = <<>>
  /\ now = 0
  /\ created = 0
  /\ homeOp = "none"
  /\ route = "mounting"
  /\ viewed = 0
  /\ deleted = 0

ConfigIdle ==
  /\ redisKey = NULL
  /\ env = [n \in {EnvNames[i] : i \in 1..Len(EnvNames)} |-> ""]
  /\ configAnswer = "unread"

\* a relay invocation that has just been entered
RelayIdle ==
  /\ relayPc = "start"
  /\ relayApiUrl = "unread"
  /\ upstreamFetches = 0
  /\ upstreamStatus = 0
  /\ responseStatus = 0
  /\ upstream = "none"
  /\ downstream = "none"
  /\ upIn = <<>>
  /\ downOut = <<>>
  /\ decoderPending = <<>>
  /\ thrown = {}

SessionIds == {"", "s1"}
ApiUrls == {"http://api"}

\* the state of a freshly mounted SessionPage
Init ==
  /\ sessionId \in SessionIds
  /\ apiUrl = ""
  /\ configState = "pending"
  /\ fetchState = "idle"
  /\ requests = <<>>
  /\ isConnected = FALSE
  /\ error = NULL
  /\ eventSource = NULL
  /\ reconnectTimeout = NoTimer
  /\ reconnectAttempts = 0
  /\ scheduled = <<>>
  /\ opened = FALSE
  /\ lastWrite = "none"
  /\ inBatch = <<>>
  /\ inLive = <<>>
  /\ liveDone = {}
  /\ mounted = TRUE
  /\ cleanupMet = "none"
  /\ pinged = FALSE
  /\ errorTick = 0
  /\ RelayIdle
  /\ HomeIdle
  /\ ConfigIdle

(***************************************************************************)
(* SessionPage handlers.                                                   *)
(***************************************************************************)
\* connect(): close the previous EventSource, construct a new one
connect == eventSource' = "CONNECTING"

runEffectsUnguarded(url) ==
  /\ fetchState' = "pending"
  /\ connect

\* the effects with dependencies [sessionId, apiUrl], run after setApiUrl(url)
runEffects(url) ==
  IF sessionId # "" /\ url # ""
  THEN /\ fetchState' = "pending"
       /\ connect
  ELSE UNCHANGED <<fetchState, eventSource>>

\* fetchApiConfig: getApiUrl() resolved with a non-empty address
FetchApiConfigOk(url) ==
  /\ mounted
  /\ configState = "pending"
  /\ configState' = "done"
  /\ apiUrl' = url
  /\ runEffects(url)
  /\ UNCHANGED <<frameVars, errorTick, pinged, sessionId, requests, isConnected, error, reconnectTimeout,
                 reconnectAttempts, scheduled, opened, lastWrite, mergeVars>>

\* fetchApiConfig: getApiUrl() threw; apiUrl stays ''
FetchApiConfigFail ==
  /\ mounted
  /\ configState = "pending"
  /\ configState' = "failed"
  /\ UNCHANGED <<frameVars, errorTick, pinged, sessionId, apiUrl, fetchState, requests, isConnected, error,
                 connVars, lastWrite, mergeVars>>

\* fetchRequests, response.ok: setRequests(data.requests || [])
fetchRequestsOk(data) ==
  /\ mounted
  /\ fetchState = "pending"
  /\ fetchState' = "done"
  /\ requests' = loadHistorical(requests, data)
  /\ lastWrite' = "historical"
  /\ UNCHANGED <<frameVars, errorTick, pinged, sessionId, apiUrl, configState, isConnected, error, connVars>>

FetchRequestsOk(data) ==
  fetchRequestsOk(data) /\ UNCHANGED mergeVars

\* fetchRequests, status 404
FetchRequestsNotFound ==
  /\ mounted
  /\ fetchState = "pending"
  /\ fetchState' = "notfound"
  /\ error' = SessionNotFound
  /\ UNCHANGED <<frameVars, errorTick, pinged, sessionId, apiUrl, configState, requests, isConnected, connVars,
                 lastWrite, mergeVars>>

\* fetchRequests, any other failure (non-ok status, network error, bad JSON)
FetchRequestsFail ==
  /\ mounted
  /\ fetchState = "pending"
  /\ fetchState' = "failed"
  /\ error' = FailedToLoad
  /\ UNCHANGED <<frameVars, errorTick, pinged, sessionId, apiUrl, configState, requests, isConnected, connVars,
                 lastWrite, mergeVars>>

\* eventSource.onopen
onopen ==
  /\ eventSource = "CONNECTING"
  /\ eventSource' = "OPEN"
  /\ isConnected' = TRUE
  /\ error' = NULL
  /\ reconnectAttempts' = 0
  /\ scheduled' = <<>>
  /\ opened' = TRUE
  /\ UNCHANGED <<frameVars, errorTick, pinged, sessionId, apiUrl, configState, fetchState, requests,
                 reconnectTimeout, lastWrite, mergeVars>>

requestListenerReportsMalformed(data) ==
  /\ eventSource = "OPEN"
  /\ UNCHANGED <<frameVars, errorTick, pinged, sessionId, apiUrl, configState, fetchState,
                 connVars>>
  /\ IF ~data.json
     THEN /\ requests' = requests
          /\ lastWrite' = "malformed"
          /\ isConnected' = FALSE
          /\ error' = FailedToLoad
     ELSE /\ requests' = appendLive(requests, data.value)
          /\ lastWrite' = IF ~exists(requests, data.value) THEN "live_new"
                          ELSE IF data.value \in Records(requests) THEN "live_dup_same"
                          ELSE "live_dup_differs"
          /\ UNCHANGED <<isConnected, error>>

\* the `request` listener: JSON.parse(event.data), then the setRequests updater
requestListener(data) ==
  /\ eventSource = "OPEN"
  /\ UNCHANGED <<frameVars, errorTick, pinged, sessionId, apiUrl, configState, fetchState, isConnected, error,
                 connVars>>
  /\ IF ~data.json
     THEN /\ requests' = requests
          /\ lastWrite' = "malformed"
     ELSE /\ requests' = appendLive(requests, data.value)
          /\ lastWrite' = IF ~exists(requests, data.value) THEN "live_new"
                          ELSE IF data.value \in Records(requests) THEN "live_dup_same"
                          ELSE "live_dup_differs"

OnRequest(data) == requestListener(data) /\ UNCHANGED mergeVars

OnPingClearsError ==
  /\ eventSource = "OPEN"
  /\ isConnected' = TRUE
  /\ error' = NULL
  /\ pinged' = TRUE
  /\ UNCHANGED <<frameVars, errorTick, sessionId, apiUrl, configState, fetchState, requests,
                 connVars, lastWrite, mergeVars>>

\* the `ping` listener
OnPing ==
  /\ eventSource = "OPEN"
  /\ isConnected' = TRUE
  /\ pinged' = TRUE
  /\ UNCHANGED <<frameVars, errorTick, sessionId, apiUrl, configState, fetchState, requests, error,
                 connVars, lastWrite, mergeVars>>

\* what the browser leaves in readyState when it fires `error`: CONNECTING when it
\* re-establishes the connection itself, CLOSED when it fails the connection
ErrorReadyStates == {"CONNECTING", "CLOSED"}

onerrorNoCount(readyState) ==
  /\ eventSource \in {"CONNECTING", "OPEN"}
  /\ eventSource' = readyState
  /\ isConnected' = FALSE
  /\ errorTick' = 1 - errorTick
  /\ IF shouldRetry(reconnectAttempts) /\ readyState = "CLOSED"
     THEN /\ reconnectTimeout' = nextDelay(reconnectAttempts)
          /\ scheduled' = Append(scheduled, nextDelay(reconnectAttempts))
          /\ UNCHANGED <<reconnectAttempts, error>>
     ELSE /\ error' = IF reconnectAttempts >= maxReconnectAttempts
                      THEN ConnectionExhausted ELSE error
          /\ UNCHANGED <<reconnectTimeout, reconnectAttempts, scheduled>>
  /\ UNCHANGED <<frameVars, pinged, sessionId, apiUrl, configState, fetchState, requests, opened,
                 lastWrite, mergeVars>>

onerrorAlwaysSchedules(readyState) ==
  /\ eventSource \in {"CONNECTING", "OPEN"}
  /\ eventSource' = readyState
  /\ isConnected' = FALSE
  /\ errorTick' = 1 - errorTick
  /\ IF shouldRetry(reconnectAttempts)
     THEN /\ reconnectTimeout' = nextDelay(reconnectAttempts)
          /\ reconnectAttempts' = reconnectAttempts + 1
          /\ scheduled' = Append(scheduled, nextDelay(reconnectAttempts))
          /\ error' = error
     ELSE /\ error' = IF reconnectAttempts >= maxReconnectAttempts
                      THEN ConnectionExhausted ELSE error
          /\ UNCHANGED <<reconnectTimeout, reconnectAttempts, scheduled>>
  /\ UNCHANGED <<frameVars, pinged, sessionId, apiUrl, configState, fetchState, requests, opened,
                 lastWrite, mergeVars>>

\* eventSource.onerror
onerror(readyState) ==
  /\ eventSource \in {"CONNECTING", "OPEN"}
  /\ eventSource' = readyState
  /\ isConnected' = FALSE
  /\ errorTick' = 1 - errorTick
  /\ IF shouldRetry(reconnectAttempts) /\ readyState = "CLOSED"
     THEN /\ reconnectTimeout' = nextDelay(reconnectAttempts)
          /\ reconnectAttempts' = reconnectAttempts + 1
          /\ scheduled' = Append(scheduled, nextDelay(reconnectAttempts))
          /\ error' = error
     ELSE /\ error' = IF reconnectAttempts >= maxReconnectAttempts
                      THEN ConnectionExhausted ELSE error
          /\ UNCHANGED <<reconnectTimeout, reconnectAttempts, scheduled>>
  /\ UNCHANGED <<frameVars, pinged, sessionId, apiUrl, configState, fetchState, requests, opened,
                 lastWrite, mergeVars>>

reconnectTimerResets ==
  /\ reconnectTimeout # NoTimer
  /\ reconnectTimeout' = NoTimer
  /\ reconnectAttempts' = 0
  /\ connect
  /\ UNCHANGED <<frameVars, errorTick, pinged, sessionId, apiUrl, configState, fetchState, requests, isConnected,
                 error, scheduled, opened, lastWrite, mergeVars>>

\* the setTimeout callback: connect()
reconnectTimer ==
  /\ reconnectTimeout # NoTimer
  /\ reconnectTimeout' = NoTimer
  /\ connect
  /\ UNCHANGED <<frameVars, errorTick, pinged, sessionId, apiUrl, configState, fetchState, requests, isConnected,
                 error, reconnectAttempts, scheduled, opened, lastWrite, mergeVars>>

cleanupKeepsTimer ==
  /\ mounted
  /\ mounted' = FALSE
  /\ IF eventSource = NULL
     THEN /\ cleanupMet' = "nothing"
          /\ UNCHANGED eventSource
     ELSE /\ cleanupMet' = IF reconnectTimeout # NoTimer THEN "timer"
                           ELSE IF eventSource = "CLOSED" THEN "closed"
                           ELSE "transport"
          /\ eventSource' = "CLOSED"
  /\ UNCHANGED <<errorTick, pinged, sessionId, apiUrl, configState, fetchState, requests,
                 isConnected, error, reconnectTimeout, reconnectAttempts, scheduled,
                 opened, lastWrite, mergeVars, relayVars, homeVars, configVars>>

\* the page unmounts: the cleanup returned by the SSE effect (none was returned when
\* the effect left early, and then no EventSource exists); React drops the state
\* updates of an unmounted component, so the fetches change nothing afterwards
cleanup ==
  /\ mounted
  /\ mounted' = FALSE
  /\ IF eventSource = NULL
     THEN /\ cleanupMet' = "nothing"
          /\ UNCHANGED <<eventSource, reconnectTimeout>>
     ELSE /\ cleanupMet' = IF reconnectTimeout # NoTimer THEN "timer"
                           ELSE IF eventSource = "CLOSED" THEN "closed"
                           ELSE "transport"
          /\ reconnectTimeout' = NoTimer
          /\ eventSource' = "CLOSED"
  /\ UNCHANGED <<errorTick, pinged, sessionId, apiUrl, configState, fetchState, requests,
                 isConnected, error, reconnectAttempts, scheduled, opened, lastWrite,
                 mergeVars, relayVars, homeVars, configVars>>

\* what the render shows in place of the page: if (error && requests.length === 0)
errorShown == error # NULL /\ Len(requests) = 0

(***************************************************************************)
(* The session page.                                                       *)
(***************************************************************************)
\* the data of `request` messages, and the bodies of successful historical responses
LiveData(n) == {Encoded(r) : r \in WebhookRequest(n)} \cup {Malformed}
HistoricalData(n, len) ==
  {[total_requests |-> Len(b), requests |-> b] : b \in Batches(n, len)}
    \cup {[total_requests |-> 0]}

Next ==
  \/ \E url \in ApiUrls : FetchApiConfigOk(url)
  \/ FetchApiConfigFail
  \/ \E d \in HistoricalData(MaxId, MaxBatch) : FetchRequestsOk(d)
  \/ FetchRequestsNotFound
  \/ FetchRequestsFail
  \/ onopen
  \/ \E data \in LiveData(MaxId) : OnRequest(data)
  \/ OnPing
  \/ \E rs \in ErrorReadyStates : onerror(rs)
  \/ reconnectTimer
  \/ cleanup

Spec == Init /\ [][Next]_vars

(***************************************************************************)
(* The store's two writers on a page whose subscription is open and whose  *)
(* historical fetch is in flight.                                          *)
(***************************************************************************)
\* the page after fetchApiConfig resolved and the first EventSource opened
InitStore ==
  /\ sessionId = "s1"
  /\ apiUrl \in ApiUrls
  /\ configState = "done"
  /\ fetchState = "pending"
  /\ requests = <<>>
  /\ isConnected = TRUE
  /\ error = NULL
  /\ eventSource = "OPEN"
  /\ reconnectTimeout = NoTimer
  /\ reconnectAttempts = 0
  /\ scheduled = <<>>
  /\ opened = TRUE
  /\ lastWrite = "none"
  /\ inBatch = <<>>
  /\ inLive = <<>>
  /\ liveDone = {}
  /\ mounted = TRUE
  /\ cleanupMet = "none"
  /\ pinged = FALSE
  /\ errorTick = 0
  /\ RelayIdle
  /\ HomeIdle
  /\ ConfigIdle

NextStore ==
  \/ \E d \in HistoricalData(MaxStoreBatchId, MaxStoreBatch) : FetchRequestsOk(d)
  \/ \E data \in LiveData(MaxStoreId) : OnRequest(data)

SpecStore == InitStore /\ [][NextStore]_vars

(***************************************************************************)
(* One historical batch and a list of live events, fixed in advance and    *)
(* applied to the store in every order.                                    *)
(***************************************************************************)
InitMerge ==
  /\ sessionId = "s1"
  /\ apiUrl \in ApiUrls
  /\ configState = "done"
  /\ fetchState = "pending"
  /\ requests = <<>>
  /\ isConnected = TRUE
  /\ error = NULL
  /\ eventSource = "OPEN"
  /\ reconnectTimeout = NoTimer
  /\ reconnectAttempts = 0
  /\ scheduled = <<>>
  /\ opened = TRUE
  /\ lastWrite = "none"
  /\ inBatch \in Batches(MaxMergeId, MaxMergeBatch)
  /\ inLive \in SeqsUpTo(WebhookRequest(MaxMergeId), MaxLive)
  /\ liveDone = {}
  /\ mounted = TRUE
  /\ cleanupMet = "none"
  /\ pinged = FALSE
  /\ errorTick = 0
  /\ RelayIdle
  /\ HomeIdle
  /\ ConfigIdle

\* the historical response arrives
MergeHistorical ==
  /\ fetchRequestsOk([total_requests |-> Len(inBatch), requests |-> inBatch])
  /\ UNCHANGED mergeVars

\* the i-th live event arrives
MergeLive(i) ==
  /\ i \notin liveDone
  /\ requestListener(Encoded(inLive[i]))
  /\ liveDone' = liveDone \cup {i}
  /\ UNCHANGED <<inBatch, inLive>>

NextMerge ==
  \/ MergeHistorical
  \/ \E i \in DOMAIN inLive : MergeLive(i)

SpecMerge == InitMerge /\ [][NextMerge]_vars

(***************************************************************************)
(* A loaded page and the `request` messages of one EventSource, dispatched *)
(* to the listener in the order the transport yields them.                 *)
(***************************************************************************)
InitStream ==
  /\ sessionId = "s1"
  /\ apiUrl \in ApiUrls
  /\ configState = "done"
  /\ fetchState = "done"
  /\ inBatch \in Batches(MaxMergeId, MaxMergeBatch)
  /\ requests = inBatch
  /\ isConnected = TRUE
  /\ error = NULL
  /\ eventSource = "OPEN"
  /\ reconnectTimeout = NoTimer
  /\ reconnectAttempts = 0
  /\ scheduled = <<>>
  /\ opened = TRUE
  /\ lastWrite = "historical"
  /\ inLive \in SeqsUpTo(WebhookRequest(MaxMergeId), MaxLive)
  /\ liveDone = {}
  /\ mounted = TRUE
  /\ cleanupMet = "none"
  /\ pinged = FALSE
  /\ errorTick = 0
  /\ RelayIdle
  /\ HomeIdle
  /\ ConfigIdle

\* the next message of the stream is dispatched
StreamDeliver ==
  /\ Cardinality(liveDone) < Len(inLive)
  /\ MergeLive(Cardinality(liveDone) + 1)

SpecStream == InitStream /\ [][StreamDeliver]_vars

(***************************************************************************)
(* Properties of the request store.                                        *)
(***************************************************************************)
RECURSIVE appendAll(_, _)
appendAll(store, events) ==
  IF events = <<>> THEN store
  ELSE appendAll(appendLive(store, Head(events)), Tail(events))

\* the store after the same calls applied batch first, then the live events in order
BatchFirstStore ==
  appendAll(loadHistorical(<<>>, [total_requests |-> Len(inBatch), requests |-> inBatch]),
            inLive)

MergeDone == fetchState = "done" /\ liveDone = DOMAIN inLive

\* deliveries of one request_id carry the same capture
SameCapture ==
  \A a, b \in Records(inBatch) \cup Records(inLive) :
    a.request_id = b.request_id => a = b

\* C1: whatever the order in which one historical batch and the live events are
\* applied, the store ends with the same set of records (request_ids and payloads)
\* as when the batch is applied first.
C1_MergeCommutes ==
  (MergeDone /\ SameCapture) => Records(requests) = Records(BatchFirstStore)

\* the entries of seq that are in the set keep, in seq's order
Restrict(seq, keep) == SelectSeq(seq, LAMBDA r : r \in keep)

\* C2: a historical batch applied to a store keeps every entry already present, with
\* its payload and in the same relative order, skips the batch entries whose
\* request_id is present and adds exactly the batch entries with new request_ids.
C2_HistoricalMerges ==
  [][\A d \in HistoricalData(MaxStoreBatchId, MaxStoreBatch) :
       (FetchRequestsOk(d) /\ "requests" \in DOMAIN d) =>
         /\ Restrict(requests', Records(requests)) = requests
         /\ Records(requests') =
              Records(requests) \cup
                {r \in Records(d.requests) : r.request_id \notin RequestIds(requests)}
         /\ Len(requests') = Cardinality(Records(requests'))]_vars

\* C3: after any sequence of live events and historical batches (each batch free
\* of repeated request_ids) no two entries of the store share a request_id.
C3_NoDuplicateIds == NoDuplicateIds(requests)

\* a batch was loaded, live events were added and a delivery was repeated
C3_Witness ==
  /\ fetchState = "done"
  /\ lastWrite \in {"live_dup_same", "live_dup_differs"}
  /\ Len(requests) = MaxStoreId

\* C4: a live event whose request_id is in the store leaves the store as it was
\* (order, length, every payload), also when its payload differs from the stored
\* one, and delivering an event twice gives the store of delivering it once.
C4_DuplicateIsNoOp ==
  /\ [][\A data \in LiveData(MaxStoreId) :
          (OnRequest(data) /\ data.json /\ data.value.request_id \in RequestIds(requests))
            => requests' = requests]_vars
  /\ [](\A r \in WebhookRequest(MaxStoreId) :
          appendLive(appendLive(requests, r), r) = appendLive(requests, r))

\* a duplicate with another payload than the stored one has been delivered
C4_Witness ==
  /\ lastWrite = "live_dup_differs"
  /\ Len(requests) >= 2

\* C5: a live event whose request_id is not in the store lands at index 0 whatever
\* its timestamp, the previous entries follow in their previous order and the length
\* grows by one; [r1,r2,r3] stays as it is on duplicate r2 and becomes [r4,r1,r2,r3]
\* on r4.
C5_NewIsPrepended ==
  /\ [][\A data \in LiveData(MaxStoreId) :
          (OnRequest(data) /\ data.json /\ data.value.request_id \notin RequestIds(requests))
            => /\ Len(requests') = Len(requests) + 1
               /\ requests'[1] = data.value
               /\ \A i \in 1..Len(requests) : requests'[i + 1] = requests[i]]_vars
  /\ [](\A t2, t4 \in Timestamps :
          LET r1 == [request_id |-> 1, timestamp |-> "t1"]
              r2 == [request_id |-> 2, timestamp |-> "t1"]
              r3 == [request_id |-> 3, timestamp |-> "t2"]
              r4 == [request_id |-> 4, timestamp |-> t4]
          IN  requests = <<r1, r2, r3>> =>
                /\ appendLive(requests, [request_id |-> 2, timestamp |-> t2]) = requests
                /\ appendLive(requests, r4) = <<r4, r1, r2, r3>>)

\* the store was [r1,r2,r3], and r4, older than r3, arrived live
C5_Witness ==
  /\ lastWrite = "live_new"
  /\ requests = << [request_id |-> 4, timestamp |-> "t1"],
                   [request_id |-> 1, timestamp |-> "t1"],
                   [request_id |-> 2, timestamp |-> "t1"],
                   [request_id |-> 3, timestamp |-> "t2"] >>

(***************************************************************************)
(* Properties of the reconnection logic.                                   *)
(***************************************************************************)
\* the delays, in milliseconds, of the retries for attempts 0..9
DelaySchedule == <<1000, 2000, 4000, 8000, 16000, 30000, 30000, 30000, 30000, 30000>>

TimerPending == reconnectTimeout # NoTimer
Failed == error = ConnectionExhausted
Reconnecting == TimerPending /\ ~isConnected /\ eventSource = "CLOSED"

\* C6: the delay of the retry for attempt n is min(1s * 2^n, 30s), with no jitter:
\* 1,2,4,8,16,30,30,30,30,30 seconds for attempts 0..9; a failure that closed the
\* transport is retried exactly when the attempt counter is below 10.
C6_BackoffSchedule ==
  /\ [](/\ Len(scheduled) <= maxReconnectAttempts
        /\ \A i \in 1..Len(scheduled) : scheduled[i] = DelaySchedule[i]
        /\ TimerPending => reconnectTimeout = scheduled[Len(scheduled)])
  /\ [][onerror("CLOSED") =>
          (TimerPending' <=> reconnectAttempts < 10)]_vars

\* all ten retries of one outage have been scheduled
C6_Witness ==
  /\ Len(scheduled) = 10
  /\ reconnectTimeout = 30000

C8_NoTimerAtTen ==
  /\ [][((\E rs \in ErrorReadyStates : onerror(rs))
           /\ reconnectAttempts >= maxReconnectAttempts) =>
          (Failed' /\ ~TimerPending')]_vars
  /\ [](TimerPending => reconnectAttempts < maxReconnectAttempts)

\* C8 as amended: a failure met with the attempt counter at 10 moves the consumer to
\* Failed and schedules no timer; a timer is only ever set by a failure that met the
\* counter below 10, so the counter never exceeds 10 and the tenth retry's timer is
\* pending with the counter at 10.
C8_NoTimerPastTen ==
  /\ [][((\E rs \in ErrorReadyStates : onerror(rs))
           /\ reconnectAttempts >= maxReconnectAttempts) =>
          /\ Failed'
          /\ ~TimerPending'
          /\ ~isConnected'
          /\ UNCHANGED <<reconnectAttempts, scheduled>>]_vars
  /\ [][(~TimerPending /\ TimerPending') =>
          reconnectAttempts < maxReconnectAttempts]_vars
  /\ [](reconnectAttempts \in 0..maxReconnectAttempts)
  /\ [](TimerPending => reconnectAttempts \in 1..maxReconnectAttempts)

\* the eleventh connection attempt of an outage failed
C8_Witness ==
  /\ Failed
  /\ reconnectAttempts = maxReconnectAttempts
  /\ ~TimerPending
  /\ eventSource = "CLOSED"

\* C9: once in Failed the consumer stays there: it does not become Open, opens no
\* transport, schedules no timer and its error is not cleared.
C9_FailedIsTerminal ==
  [][Failed =>
       /\ error' # NULL
       /\ ~isConnected'
       /\ eventSource' # "OPEN"
       /\ (eventSource' = "CONNECTING" => eventSource = "CONNECTING")
       /\ ~TimerPending']_vars

\* C10: a transport error met with budget left sets no error, and once the budget is
\* exhausted the viewer is shown the error whatever the store holds.
C10_ExhaustionReported ==
  /\ [][((\E rs \in ErrorReadyStates : onerror(rs))
           /\ reconnectAttempts < maxReconnectAttempts) => error' = error]_vars
  /\ [](Failed => errorShown)

(***************************************************************************)
(* Properties of the message listeners and of the subscription's ends.     *)
(***************************************************************************)
\* C11: a `request` message whose data JSON.parse rejects is dropped: the store, the
\* connection state, the attempt counter and the timer are unchanged, the transport
\* stays open, and the listener goes on accepting well-formed messages.
C11_MalformedIsDropped ==
  /\ [][OnRequest(Malformed) =>
          /\ eventSource' = "OPEN"
          /\ UNCHANGED <<requests, isConnected, error, reconnectTimeout,
                         reconnectAttempts, scheduled>>]_vars
  /\ []((lastWrite = "malformed" /\ eventSource = "OPEN") =>
          \A r \in WebhookRequest(MaxId) :
            /\ ENABLED OnRequest(Encoded(r))
            /\ r.request_id \in RequestIds(appendLive(requests, r)))

\* a malformed message was dropped on an open subscription that holds requests
C11_Witness ==
  /\ lastWrite = "malformed"
  /\ eventSource = "OPEN"
  /\ isConnected
  /\ Len(requests) > 0

\* C12: a `ping` message marks the consumer connected and changes nothing else:
\* store, attempt counter, error and timer stay as they were.
C12_PingOnlyConnects ==
  [][OnPing =>
       /\ isConnected'
       /\ UNCHANGED <<requests, lastWrite, error, eventSource, reconnectTimeout,
                      reconnectAttempts, scheduled>>]_vars

\* a ping was handled while an error of the historical fetch is on display
C12_Witness ==
  /\ pinged
  /\ eventSource = "OPEN"
  /\ isConnected
  /\ error = SessionNotFound

\* C13: the cleanup can run in any state of a mounted page; it cancels the pending
\* timer and closes the transport, and afterwards no timer fires, no transport is
\* opened and no event changes the store or the connection state.
C13_CleanupIsFinal ==
  /\ [](mounted => ENABLED cleanup)
  /\ [](~mounted => (~(reconnectTimeout # NoTimer) /\ eventSource \in {NULL, "CLOSED"}))
  /\ [][~mounted =>
          UNCHANGED <<requests, isConnected, error, eventSource, reconnectTimeout,
                      reconnectAttempts, scheduled>>]_vars

\* the page was unmounted while a retry timer was pending
C13_Witness ==
  /\ ~mounted
  /\ cleanupMet = "timer"
  /\ reconnectAttempts > 0

\* position of a request_id in the store
Position(id) == CHOOSE p \in 1..Len(requests) : requests[p].request_id = id

\* the i-th message of the stream carries a request_id new to the store
NewAt(i) ==
  /\ inLive[i].request_id \notin RequestIds(inBatch)
  /\ \A h \in 1..(i - 1) : inLive[h].request_id # inLive[i].request_id

\* C14: the well-formed `request` messages reach the store one at a time in the
\* order the transport yields them, none lost: of two new events a, then b, b ends
\* ahead of a in the store.
C14_DeliveredInOrder ==
  LET k == Cardinality(liveDone)
  IN  /\ liveDone = 1..k
      /\ RequestIds(requests) =
           RequestIds(inBatch) \cup {inLive[i].request_id : i \in 1..k}
      /\ Len(requests) = Len(inBatch) + Cardinality({i \in 1..k : NewAt(i)})
      /\ \A i, j \in 1..k :
           (i < j /\ NewAt(i) /\ NewAt(j)) =>
             Position(inLive[j].request_id) < Position(inLive[i].request_id)

\* two new events were delivered after a historical batch
C14_Witness ==
  /\ Len(inBatch) > 0
  /\ Cardinality(liveDone) = 2
  /\ NewAt(1)
  /\ NewAt(2)
  /\ Len(requests) = Len(inBatch) + 2

\* C15: a subscription that cannot start, for an empty sessionId or for want of a
\* resolved endpoint, shows as an error in the consumer's state.
C15_ConfigurationErrorSurfaced ==
  (configState = "failed" \/ (configState = "done" /\ sessionId = "")) => error # NULL

(***************************************************************************)
(* The SSE relay: GET /api/proxy/stream/[sessionId].                       *)
(***************************************************************************)

\* what client.get('config:api_url') can yield: nothing (or a Redis error), an
\* empty string, an address
RedisValues == {NULL, "", "http://origin"}

\* statuses the backend answers with
UpstreamStatuses == {200, 204, 304, 404, 500, 503}

\* Response.ok
ok(status) == status \in 200..299

\* statuses whose Response carries no body (Fetch: null body status)
NullBodyStatuses == {101, 103, 204, 205, 304}

\* new Response(body, {status}) throws: a RangeError for a status outside
\* 200..599, a TypeError for a body given with a null body status
ResponseThrows(hasBody, status) ==
  \/ status \notin 200..599
  \/ hasBody /\ status \in NullBodyStatuses

\* the bytes of the model: an ASCII letter, the two bytes of U+00E9 (a lead byte
\* and its continuation byte), and a byte that is never valid UTF-8
Bytes == {97, 195, 169, 255}
Chunks == UNION {[1..n -> Bytes] : n \in 1..MaxChunkLen}

Flatten(chunks) ==
  LET RECURSIVE flat(_)
      flat(i) == IF i > Len(chunks) THEN <<>> ELSE chunks[i] \o flat(i + 1)
  IN  flat(1)

\* one byte through the UTF-8 decoder of decoder.decode(value, {stream: true}):
\* the code points it emits and the bytes it keeps for the next call. A lead byte
\* waits for its continuation; a malformed sequence becomes U+FFFD and a byte
\* that did not continue it is decoded again on its own.
decodeByte(pending, b) ==
  LET fresh == IF b < 128 THEN [chars |-> <<b>>, pending |-> <<>>]
               ELSE IF b \in 194..223 THEN [chars |-> <<>>, pending |-> <<b>>]
               ELSE [chars |-> <<65533>>, pending |-> <<>>]
  IN  IF pending = <<>> THEN fresh
      ELSE IF b \in 128..191
           THEN [chars |-> <<(pending[1] - 192) * 64 + (b - 128)>>, pending |-> <<>>]
           ELSE [chars |-> <<65533>> \o fresh.chars, pending |-> fresh.pending]

\* decoder.decode(value, {stream: true})
decode(pending, value) ==
  LET RECURSIVE run(_, _)
      run(i, st) ==
        IF i > Len(value) THEN st
        ELSE LET d == decodeByte(st.pending, value[i])
             IN  run(i + 1, [chars |-> st.chars \o d.chars, pending |-> d.pending])
  IN  run(1, [chars |-> <<>>, pending |-> pending])

\* new TextEncoder().encode(chunk): UTF-8 of code points below 65536
encode(chars) ==
  LET utf8(c) == IF c < 128 THEN <<c>>
                 ELSE IF c < 2048 THEN <<192 + (c \div 64), 128 + (c % 64)>>
                 ELSE <<224 + (c \div 4096), 128 + ((c \div 64) % 64), 128 + (c % 64)>>
      RECURSIVE enc(_)
      enc(i) == IF i > Len(chars) THEN <<>> ELSE utf8(chars[i]) \o enc(i + 1)
  IN  enc(1)

\* getApiUrlFromRedis, the `!apiUrl` guard and the call of fetch
RelayResolveNullOnly(value) ==
  /\ relayPc = "start"
  /\ relayApiUrl' = value
  /\ IF value = NULL
     THEN /\ responseStatus' = 503
          /\ relayPc' = "responded"
          /\ UNCHANGED upstreamFetches
     ELSE /\ upstreamFetches' = upstreamFetches + 1
          /\ relayPc' = "fetching"
          /\ UNCHANGED responseStatus
  /\ UNCHANGED <<pageVars, homeVars, configVars, upstreamStatus, upstream, downstream, upIn, downOut,
                 decoderPending, thrown>>

RelayResolve(value) ==
  /\ relayPc = "start"
  /\ relayApiUrl' = value
  /\ IF value = NULL \/ value = ""
     THEN /\ responseStatus' = 503
          /\ relayPc' = "responded"
          /\ UNCHANGED upstreamFetches
     ELSE /\ upstreamFetches' = upstreamFetches + 1
          /\ relayPc' = "fetching"
          /\ UNCHANGED responseStatus
  /\ UNCHANGED <<pageVars, homeVars, configVars, upstreamStatus, upstream, downstream, upIn, downOut,
                 decoderPending, thrown>>

\* fetch resolves with a response of the given status: a non-success status is
\* answered with new Response(text, {status}), whose throw lands in the outer
\* catch (500); a success builds the stream, whose start() takes the reader of
\* the body, or closes at once when the response has no body
RelayFetchResponse(status) ==
  /\ relayPc = "fetching"
  /\ upstreamStatus' = status
  /\ IF ~ok(status)
     THEN /\ responseStatus' = IF ResponseThrows(TRUE, status) THEN 500 ELSE status
          /\ relayPc' = "responded"
          /\ upstream' = "unread"
          /\ UNCHANGED downstream
     ELSE /\ responseStatus' = 200
          /\ IF status \in NullBodyStatuses
             THEN /\ relayPc' = "ended"
                  /\ upstream' = "none"
                  /\ downstream' = "closed"
             ELSE /\ relayPc' = "streaming"
                  /\ upstream' = "open"
                  /\ downstream' = "readable"
  /\ UNCHANGED <<pageVars, homeVars, configVars, relayApiUrl, upstreamFetches, upIn, downOut,
                 decoderPending, thrown>>

\* fetch rejects: the outer catch answers 500
RelayFetchFailsRetries ==
  /\ relayPc = "fetching"
  /\ upstreamFetches' = upstreamFetches + 1
  /\ UNCHANGED <<pageVars, homeVars, configVars, relayPc, relayApiUrl, upstreamStatus, responseStatus,
                 upstream, downstream, upIn, downOut, decoderPending, thrown>>

RelayFetchFails ==
  /\ relayPc = "fetching"
  /\ responseStatus' = 500
  /\ relayPc' = "responded"
  /\ UNCHANGED <<pageVars, homeVars, configVars, relayApiUrl, upstreamFetches, upstreamStatus, upstream,
                 downstream, upIn, downOut, decoderPending, thrown>>

\* one turn of the loop in which reader.read() yields a chunk: decode, encode,
\* enqueue. On a cancelled stream enqueue throws, the catch logs, and the
\* close() of the finally block throws in its turn.
RelayRead(value) ==
  /\ relayPc = "streaming"
  /\ upstream = "open"
  /\ Len(upIn) < MaxChunks
  /\ upIn' = Append(upIn, value)
  /\ LET d == decode(decoderPending, value)
     IN  /\ decoderPending' = d.pending
         /\ IF downstream = "readable"
            THEN /\ downOut' = Append(downOut, encode(d.chars))
                 /\ UNCHANGED <<relayPc, thrown>>
            ELSE /\ thrown' = thrown \cup {"enqueue", "close"}
                 /\ relayPc' = "ended"
                 /\ UNCHANGED downOut
  /\ UNCHANGED <<pageVars, homeVars, configVars, relayApiUrl, upstreamFetches, upstreamStatus,
                 responseStatus, upstream, downstream>>

\* the finally block: controller.close(), which throws on a cancelled stream
RelayFinally ==
  /\ relayPc' = "ended"
  /\ IF downstream = "readable"
     THEN /\ downstream' = "closed"
          /\ UNCHANGED thrown
     ELSE /\ thrown' = thrown \cup {"close"}
          /\ UNCHANGED downstream

\* reader.read() yields done: break, then the finally block. The decoder is not
\* flushed.
RelayUpstreamEnd ==
  /\ relayPc = "streaming"
  /\ upstream = "open"
  /\ upstream' = "ended"
  /\ RelayFinally
  /\ UNCHANGED <<pageVars, homeVars, configVars, relayApiUrl, upstreamFetches, upstreamStatus,
                 responseStatus, upIn, downOut, decoderPending>>

\* reader.read() rejects: the catch logs, then the finally block
RelayUpstreamError ==
  /\ relayPc = "streaming"
  /\ upstream = "open"
  /\ upstream' = "errored"
  /\ RelayFinally
  /\ UNCHANGED <<pageVars, homeVars, configVars, relayApiUrl, upstreamFetches, upstreamStatus,
                 responseStatus, upIn, downOut, decoderPending>>

\* backendResponse.body?.cancel(): a stream locked to a reader answers with a
\* rejected promise and is left as it was
bodyCancel(locked, body) == IF locked THEN body ELSE "cancelled"

\* the downstream subscriber goes away: the stream's cancel() runs. The body has
\* been locked since start() took its reader.
DownstreamCancel ==
  /\ downstream = "readable"
  /\ downstream' = "cancelled"
  /\ upstream' = bodyCancel(relayPc \in {"streaming", "ended"}, upstream)
  /\ UNCHANGED <<pageVars, homeVars, configVars, relayPc, relayApiUrl, upstreamFetches, upstreamStatus,
                 responseStatus, upIn, downOut, decoderPending, thrown>>

NextRelay ==
  \/ \E value \in RedisValues : RelayResolve(value)
  \/ \E status \in UpstreamStatuses : RelayFetchResponse(status)
  \/ RelayFetchFails
  \/ \E value \in Chunks : RelayRead(value)
  \/ RelayUpstreamEnd
  \/ RelayUpstreamError
  \/ DownstreamCancel

SpecRelay == Init /\ [][NextRelay]_vars

\* C16: a relay whose origin address is unresolved (absent or empty) answers 503
\* and has called fetch not once; a relay that has called fetch holds a resolved
\* address.
C16_UnresolvedIs503 ==
  /\ relayApiUrl \in {NULL, ""} =>
       (relayPc = "responded" /\ responseStatus = 503 /\ upstreamFetches = 0)
  /\ upstreamFetches > 0 => relayApiUrl \notin {"unread", NULL, ""}

\* the relay read an empty address and answered
C16_Witness ==
  /\ relayApiUrl = ""
  /\ relayPc = "responded"
  /\ responseStatus = 503

\* C17: a non-success status of the upstream is the status of the relay's
\* response, and no stream is started for it.
C17_StatusPropagated ==
  (upstreamStatus # 0 /\ ~ok(upstreamStatus)) =>
    (responseStatus = upstreamStatus /\ relayPc = "responded" /\ downstream = "none")

\* C18: a relay invocation calls fetch at most once, whatever follows.
C18_OneUpstreamAttempt ==
  /\ upstreamFetches <= 1
  /\ relayPc \in {"fetching", "streaming", "ended"} => upstreamFetches = 1
  /\ (relayPc = "responded" /\ relayApiUrl \notin {NULL, ""}) => upstreamFetches = 1

\* the upstream read failed in mid-stream and the relay ended
C18_Witness ==
  /\ relayPc = "ended"
  /\ upstream = "errored"
  /\ Len(upIn) > 0
  /\ upstreamFetches = 1

\* C19: a stream relayed to its end, the subscriber still there, carried
\* downstream one chunk per upstream chunk and the same bytes.
C19_ForwardedVerbatim ==
  (upstream = "ended" /\ downstream = "closed") =>
    (Len(downOut) = Len(upIn) /\ Flatten(downOut) = Flatten(upIn))

\* C20: no relay is left with a cancelled downstream and an upstream body that is
\* still open.
C20_CancelReleasesUpstream ==
  ~(downstream = "cancelled" /\ upstream = "open")

\* C21: once the upstream has ended the downstream is closed (or was cancelled by
\* its subscriber), and a closed downstream was given every chunk read before the
\* end: one enqueue per chunk, no byte left behind in the relay.
C21_ClosedAfterForwardingAll ==
  upstream = "ended" =>
    /\ downstream \in {"closed", "cancelled"}
    /\ relayPc = "ended"
    /\ downstream = "closed" => (Len(downOut) = Len(upIn) /\ decoderPending = <<>>)

(***************************************************************************)
(* The session history: localStorage item 'webhook_sessions', written by   *)
(* the home page and by the session page's deleteSession.                  *)
(***************************************************************************)

\* sessions.slice(0, 10): the length of the history kept
maxRecentSessions == 10
\* 3 * 60 * 60 * 1000 ms, in hours
maxSessionAge == 3

\* stored ? JSON.parse(stored) : []
parseStored(stored) == IF stored.present THEN stored.value ELSE <<>>

\* Array.prototype.slice(0, n)
slice(sessions, n) == SubSeq(sessions, 1, Min(Len(sessions), n))

\* sessions.filter(session => new Date(session.created_at) > threeHoursAgo)
filterRecent(sessions, clock) ==
  LET younger(session) == session.created_at > clock - maxSessionAge
  IN  SelectSeq(sessions, younger)

\* sessions.filter(s => s.session_id !== sessionId)
filterOthers(sessions, id) ==
  LET other(session) == session.session_id # id
  IN  SelectSeq(sessions, other)

\* time passes
Tick ==
  /\ now < MaxClock
  /\ now' = now + 1
  /\ UNCHANGED <<pageVars, relayVars, configVars, webhook_sessions, recentSessions,
                 created, homeOp, route, viewed, deleted>>

\* Home's load effect, run once Home is mounted: prune, write back, show the
\* first ten
HomeLoad ==
  /\ route = "mounting"
  /\ route' = "home"
  /\ LET kept == filterRecent(parseStored(webhook_sessions), now)
     IN  /\ webhook_sessions' = Stored(kept)
         /\ recentSessions' = slice(kept, maxRecentSessions)
  /\ homeOp' = "load"
  /\ UNCHANGED <<pageVars, relayVars, configVars, now, created, viewed, deleted>>

\* Home.createSession, the backend having answered with a new session: the
\* history is written and the session page replaces Home
createSessionNoSlice ==
  /\ route = "home"
  /\ created < MaxCreated
  /\ created' = created + 1
  /\ webhook_sessions' =
       Stored(<<[session_id |-> created + 1, created_at |-> now]>>
                \o parseStored(webhook_sessions))
  /\ homeOp' = "create"
  /\ route' = "session"
  /\ viewed' = created + 1
  /\ recentSessions' = <<>>
  /\ UNCHANGED <<pageVars, relayVars, configVars, now, deleted>>

createSession ==
  /\ route = "home"
  /\ created < MaxCreated
  /\ created' = created + 1
  /\ webhook_sessions' =
       Stored(slice(<<[session_id |-> created + 1, created_at |-> now]>>
                      \o parseStored(webhook_sessions),
                    maxRecentSessions))
  /\ homeOp' = "create"
  /\ route' = "session"
  /\ viewed' = created + 1
  /\ recentSessions' = <<>>
  /\ UNCHANGED <<pageVars, relayVars, configVars, now, deleted>>

\* Home.createSession, the request failing or answered with a non-success
\* status: the catch alerts, the history is left alone
CreateSessionFail ==
  /\ route = "home"
  /\ homeOp' = "createFailed"
  /\ UNCHANGED <<pageVars, relayVars, configVars, webhook_sessions, recentSessions,
                 now, created, route, viewed, deleted>>

\* a click on the i-th recent session
OpenRecent(i) ==
  /\ route = "home"
  /\ route' = "session"
  /\ viewed' = recentSessions[i].session_id
  /\ recentSessions' = <<>>
  /\ UNCHANGED <<pageVars, relayVars, configVars, webhook_sessions, now, created,
                 homeOp, deleted>>

\* SessionPage.createNewSession
createNewSession ==
  /\ route = "session"
  /\ route' = "mounting"
  /\ viewed' = 0
  /\ UNCHANGED <<pageVars, relayVars, configVars, webhook_sessions, recentSessions,
                 now, created, homeOp, deleted>>

\* SessionPage.deleteSession
deleteSession ==
  /\ route = "session"
  /\ deleted < MaxDeleted
  /\ deleted' = deleted + 1
  /\ IF webhook_sessions.present
     THEN webhook_sessions' = Stored(filterOthers(webhook_sessions.value, viewed))
     ELSE UNCHANGED webhook_sessions
  /\ homeOp' = "delete"
  /\ route' = "mounting"
  /\ viewed' = 0
  /\ UNCHANGED <<pageVars, relayVars, configVars, recentSessions, now, created>>

NextHistory ==
  \/ Tick
  \/ HomeLoad
  \/ createSession
  \/ CreateSessionFail
  \/ \E i \in 1..Len(recentSessions) : OpenRecent(i)
  \/ createNewSession
  \/ deleteSession

SpecHistory == Init /\ [][NextHistory]_vars

\* C22: the stored session history (and the list Home shows) never holds more
\* than 10 sessions, and a session just created is at its front.
C22_HistoryBounded ==
  /\ Len(parseStored(webhook_sessions)) <= maxRecentSessions
  /\ Len(recentSessions) <= maxRecentSessions
  /\ homeOp = "create" =>
       /\ webhook_sessions.present
       /\ Head(webhook_sessions.value).session_id = created

\* an eleventh session was created onto a full history
C22_Witness ==
  /\ homeOp = "create"
  /\ created > maxRecentSessions
  /\ Len(parseStored(webhook_sessions)) = maxRecentSessions
  /\ deleted = 0

(***************************************************************************)
(* Further properties of the subscription.                                 *)
(***************************************************************************)

\* C23: the attempt counter returns to 0 only when a connecting transport opens;
\* the `ping` and `request` listeners leave it as it is.
C23_ResetOnlyByOpen ==
  [][/\ (reconnectAttempts # 0 /\ reconnectAttempts' = 0) =>
          (eventSource = "CONNECTING" /\ eventSource' = "OPEN")
     /\ (OnPing \/ \E data \in LiveData(MaxId) : OnRequest(data)) =>
          reconnectAttempts' = reconnectAttempts]_vars

\* a ping was received, and two failures later the counter shows them
C23_Witness ==
  /\ pinged
  /\ opened
  /\ reconnectAttempts = 2
  /\ Len(scheduled) = 2

\* C24: a transport that is not closed and a pending retry timer never exist
\* together; a timer is set only with none pending and the transport closed, and
\* the timer's callback opens the next transport over a closed one, leaving no timer.
C24_TransportOrTimer ==
  /\ [](~(eventSource \in {"CONNECTING", "OPEN"} /\ TimerPending))
  /\ [][/\ (scheduled' # scheduled /\ scheduled' # <<>>) =>
             (~TimerPending /\ eventSource' = "CLOSED")
        /\ reconnectTimer =>
             (eventSource = "CLOSED" /\ eventSource' = "CONNECTING" /\ ~TimerPending')
        /\ (eventSource # eventSource' /\ eventSource' = "CONNECTING") =>
             (~TimerPending' /\ eventSource \in {NULL, "CLOSED", "OPEN"})]_vars

\* the second retry timer has fired and opened the third transport
C24_Witness ==
  /\ eventSource = "CONNECTING"
  /\ reconnectAttempts = 2
  /\ ~TimerPending

\* C25: while the sessionId is empty or no endpoint is resolved there is no
\* transport and no retry timer.
C25_NoSubscriptionWithoutConfiguration ==
  (sessionId = "" \/ apiUrl = "") =>
    /\ eventSource = NULL
    /\ ~TimerPending
    /\ scheduled = <<>>
    /\ ~opened

\* the effect ran with an endpoint and an empty sessionId
C25_Witness ==
  /\ configState = "done"
  /\ apiUrl # ""
  /\ sessionId = ""
  /\ eventSource = NULL

C30_FetchErrorKept ==
  /\ [][(FetchRequestsNotFound \/ FetchRequestsFail) => requests' = requests]_vars
  /\ [][(/\ error \in {SessionNotFound, FailedToLoad}
         /\ (onopen \/ OnPing \/ \E data \in LiveData(MaxId) : OnRequest(data))) =>
          error' = error]_vars

\* the page with timers that fire and a transport that keeps dispatching events
\* (open or error) while it can
SpecFair ==
  /\ Init
  /\ [][Next]_vars
  /\ WF_vars(reconnectTimer)
  /\ WF_vars(onopen \/ \E rs \in ErrorReadyStates : onerror(rs))

\* C28: a consumer that is connecting or waiting for a retry ends up Open with the
\* attempt counter at 0, or Failed (or is unmounted).
C28_EventuallyOpenOrFailed ==
  (mounted /\ (eventSource = "CONNECTING" \/ Reconnecting)) ~>
    \/ eventSource = "OPEN" /\ reconnectAttempts = 0
    \/ Failed
    \/ ~mounted

(***************************************************************************)
(* Further properties of the relay, and the resolution of the origin       *)
(* address by /api/config and by the relay.                                *)
(***************************************************************************)

\* C29: no call the relay makes on its stream controller throws: it neither
\* enqueues to nor closes a stream its subscriber has cancelled.
C29_NoControllerErrors ==
  /\ thrown = {}
  /\ downstream = "cancelled" => Len(downOut) <= Len(upIn)

\* what an environment variable can hold: nothing, or an address
EnvValues == {"", "http://env-a", "http://env-b"}
Environments == [{EnvNames[i] : i \in 1..Len(EnvNames)} -> EnvValues]

\* a || b || c || null over the fallbacks, from the i-th on
RECURSIVE firstSet(_, _)
firstSet(e, i) ==
  IF i > Len(EnvNames) THEN NULL
  ELSE IF e[EnvNames[i]] # "" THEN e[EnvNames[i]]
  ELSE firstSet(e, i + 1)

\* GET /api/config: Redis first, the environment if Redis has nothing
resolveApiUrl(redis, e) ==
  IF redis # NULL /\ redis # "" THEN redis ELSE firstSet(e, 1)

ConfigGet ==
  /\ configAnswer' = resolveApiUrl(redisKey, env)
  /\ UNCHANGED <<pageVars, relayVars, homeVars, redisKey, env>>

\* one configuration of the UI server, then its two handlers
InitConfig ==
  /\ sessionId \in SessionIds
  /\ apiUrl = ""
  /\ configState = "pending"
  /\ fetchState = "idle"
  /\ requests = <<>>
  /\ isConnected = FALSE
  /\ error = NULL
  /\ eventSource = NULL
  /\ reconnectTimeout = NoTimer
  /\ reconnectAttempts = 0
  /\ scheduled = <<>>
  /\ opened = FALSE
  /\ lastWrite = "none"
  /\ inBatch = <<>>
  /\ inLive = <<>>
  /\ liveDone = {}
  /\ mounted = TRUE
  /\ cleanupMet = "none"
  /\ pinged = FALSE
  /\ errorTick = 0
  /\ RelayIdle
  /\ HomeIdle
  /\ redisKey \in RedisValues
  /\ env \in Environments
  /\ configAnswer = "unread"

NextConfig ==
  \/ ConfigGet
  \/ RelayResolve(redisKey)
  \/ \E status \in UpstreamStatuses : RelayFetchResponse(status)
  \/ RelayFetchFails

SpecConfig == InitConfig /\ [][NextConfig]_vars

\* C26: /api/config answers the Redis value if there is one, else the first
\* fallback that is set, else nothing; and a relay of the same configuration
\* refuses with its own 503 exactly when that answer is nothing.
C26_RelayAgreesWithConfig ==
  (configAnswer # "unread" /\ relayPc # "start") =>
    /\ configAnswer = resolveApiUrl(redisKey, env)
    /\ (relayPc = "responded" /\ upstreamFetches = 0 /\ responseStatus = 503)
         <=> configAnswer = NULL

====
